---- MODULE Spec2Model ----
(***************************************************************************)
(* Recall ingestion, deduplication and alert fan-out pipeline of           *)
(* backend/recall_update.py, with the cart endpoints of backend/app.py     *)
(* that own the user_carts table the fan-out reads.                        *)
(*                                                                         *)
(* Text is a sequence of one-character strings, so that strip, lower,      *)
(* slicing, strptime and the UPC regular expression are computed.          *)
(* A Python value is a record [t, v]: t is its type, v its text.           *)
(***************************************************************************)
EXTENDS Integers, Sequences, FiniteSets, Bags, TLC

\* ---------------------------------------------------------------- bounds
MaxBatch == 2
MaxDay == 2
MaxRuns == 2
MaxMissed == 2
\* calls of start_recall_scheduler in one process
MaxCalls == 2

\* ------------------------------------------------------- program constants
NameWidth == 500
FirmWidth == 200
ReasonWidth == 1000
SeverityWidth == 50
DistributionWidth == 500
UpcMinDigits == 12
UpcMaxDigits == 13
\* add_job(trigger="interval", hours=6, max_instances=1, misfire_grace_time=300)
IntervalSeconds == 21600
MaxInstances == 1
MisfireGraceTime == 300

\* ------------------------------------------------------------ Python values
PyNone == [t |-> "none", v |-> <<>>]
PyStr(s) == [t |-> "str", v |-> s]
PyInt == [t |-> "int", v |-> <<>>]

\* x or "" : None, "" and 0 are falsy; any other value is kept as it is.
OrEmpty(x) == IF x.t = "none" \/ (x.t = "str" /\ x.v = <<>>) THEN PyStr(<<>>) ELSE x

UpperChars ==
  <<"A","B","C","D","E","F","G","H","I","J","K","L","M",
    "N","O","P","Q","R","S","T","U","V","W","X","Y","Z">>
LowerChars ==
  <<"a","b","c","d","e","f","g","h","i","j","k","l","m",
    "n","o","p","q","r","s","t","u","v","w","x","y","z">>
DigitChars == <<"0","1","2","3","4","5","6","7","8","9">>
WhiteSpace == {" ", "\t", "\n"}

IsDigit(c) == \E i \in 1..Len(DigitChars) : DigitChars[i] = c
DigitVal(c) == (CHOOSE i \in 1..Len(DigitChars) : DigitChars[i] = c) - 1
\* \w of the regular expression: letters, digits, underscore
IsWord(c) ==
  \/ IsDigit(c)
  \/ c = "_"
  \/ \E i \in 1..Len(UpperChars) : UpperChars[i] = c \/ LowerChars[i] = c

LowerChar(c) ==
  IF \E i \in 1..Len(UpperChars) : UpperChars[i] = c
    THEN LowerChars[CHOOSE i \in 1..Len(UpperChars) : UpperChars[i] = c]
    ELSE c
\* str.lower()
Lower(s) == [i \in 1..Len(s) |-> LowerChar(s[i])]

\* str.strip()
Strip(s) ==
  LET keep == {i \in 1..Len(s) : s[i] \notin WhiteSpace}
  IN IF keep = {} THEN <<>>
     ELSE LET lo == CHOOSE i \in keep : \A j \in keep : i <= j
              hi == CHOOSE i \in keep : \A j \in keep : i >= j
          IN SubSeq(s, lo, hi)

\* s[:n]
Take(s, n) == IF Len(s) <= n THEN s ELSE SubSeq(s, 1, n)

\* ------------------------------------------------------------------ dates
TwoDigits(n) == <<DigitChars[(n \div 10) + 1], DigitChars[(n % 10) + 1]>>
FourDigits(n) ==
  <<DigitChars[(n \div 1000) + 1], DigitChars[((n \div 100) % 10) + 1],
    DigitChars[((n \div 10) % 10) + 1], DigitChars[(n % 10) + 1]>>
\* strftime("%Y-%m-%d")
Strftime(d) == FourDigits(d.y) \o <<"-">> \o TwoDigits(d.m) \o <<"-">> \o TwoDigits(d.d)

IsLeap(y) == (y % 4 = 0 /\ y % 100 # 0) \/ y % 400 = 0
DaysInMonth(y, m) ==
  IF m = 2 THEN (IF IsLeap(y) THEN 29 ELSE 28)
  ELSE IF m \in {4, 6, 9, 11} THEN 30 ELSE 31

Num(s) == IF Len(s) = 1 THEN DigitVal(s[1]) ELSE 10 * DigitVal(s[1]) + DigitVal(s[2])
AllDigits(s) == \A i \in 1..Len(s) : IsDigit(s[i])

\* The directive %m as strptime's regular expression: 1[0-2]|0[1-9]|[1-9]
MonthLens(s, i) ==
  {n \in {1, 2} :
     /\ i + n - 1 <= Len(s)
     /\ AllDigits(SubSeq(s, i, i + n - 1))
     /\ Num(SubSeq(s, i, i + n - 1)) \in 1..12
     /\ (n = 2 \/ s[i] # "0")}
\* The directive %d: 3[01]|[12]\d|0[1-9]|[1-9]| [1-9]
DayLens(s, i) ==
  {n \in {1, 2} :
     /\ i + n - 1 <= Len(s)
     /\ \/ /\ AllDigits(SubSeq(s, i, i + n - 1))
           /\ Num(SubSeq(s, i, i + n - 1)) \in 1..31
           /\ (n = 2 \/ s[i] # "0")
        \/ n = 2 /\ s[i] = " " /\ IsDigit(s[i + 1]) /\ s[i + 1] # "0"}
Longest(S) == CHOOSE n \in S : \A k \in S : k <= n

\* datetime.strptime(s, "%Y%m%d"): [ok, y, m, d]; ok = FALSE is ValueError.
\* The expression is matched greedily with backtracking and must use the
\* whole text; the date must exist in the calendar.
Strptime(s) ==
  LET bad == [ok |-> FALSE, y |-> 0, m |-> 0, d |-> 0]
  IN IF Len(s) < 4 \/ ~AllDigits(SubSeq(s, 1, 4)) THEN bad
     ELSE
       LET y == 1000 * DigitVal(s[1]) + 100 * DigitVal(s[2])
                  + 10 * DigitVal(s[3]) + DigitVal(s[4])
           ms == {n \in MonthLens(s, 5) : DayLens(s, 5 + n) # {}}
       IN IF ms = {} THEN bad
          ELSE
            LET mn == Longest(ms)
                dn == Longest(DayLens(s, 5 + mn))
                m == Num(SubSeq(s, 5, 4 + mn))
                dtxt == SubSeq(s, 5 + mn, 4 + mn + dn)
                d == IF dtxt[1] = " " THEN DigitVal(dtxt[2]) ELSE Num(dtxt)
            IN IF 4 + mn + dn # Len(s) \/ y = 0 \/ d > DaysInMonth(y, m) THEN bad
               ELSE [ok |-> TRUE, y |-> y, m |-> m, d |-> d]

\* ------------------------------------------------------- product identifier
\* A run of n digits at position i between two word boundaries.
DigitRunAt(s, i, n) ==
  /\ i + n - 1 <= Len(s)
  /\ \A k \in i..(i + n - 1) : IsDigit(s[k])
  /\ (i = 1 \/ ~IsWord(s[i - 1]))
  /\ (i + n - 1 = Len(s) \/ ~IsWord(s[i + n]))

\* re.search(r"(\d{12,13})", code_info): the expression without the two \b
_extract_upc_unanchored(code_info) ==
  LET Digits(i, n) == i + n - 1 <= Len(code_info)
                      /\ \A k \in i..(i + n - 1) : IsDigit(code_info[k])
      starts == {i \in 1..Len(code_info) : Digits(i, UpcMinDigits)}
  IN IF starts = {} THEN <<>>
     ELSE LET i == CHOOSE a \in starts : \A b \in starts : a <= b
              n == IF Digits(i, UpcMaxDigits) THEN UpcMaxDigits ELSE UpcMinDigits
          IN SubSeq(code_info, i, i + n - 1)
\* re.search(r"\b(\d{12,13})\b", code_info): the leftmost match, <<>> for None
_extract_upc_from_code_info(code_info) ==
  LET starts == {i \in 1..Len(code_info) :
                   \E n \in UpcMinDigits..UpcMaxDigits : DigitRunAt(code_info, i, n)}
  IN IF code_info = <<>> \/ starts = {} THEN <<>>
     ELSE LET i == CHOOSE a \in starts : \A b \in starts : a <= b
              n == CHOOSE k \in UpcMinDigits..UpcMaxDigits : DigitRunAt(code_info, i, k)
          IN SubSeq(code_info, i, i + n - 1)

\* ------------------------------------------------------------- normalizer
NoRecord ==
  [upc |-> <<>>, product_name |-> <<>>, brand_name |-> <<>>, recall_date |-> <<>>,
   reason |-> <<>>, severity |-> <<>>, firm_name |-> <<>>,
   distribution_pattern |-> <<>>, source |-> <<>>]
Raised == [kind |-> "raise", rec |-> NoRecord]
Rejected == [kind |-> "none", rec |-> NoRecord]

ClosedStatuses ==
  {<<"t","e","r","m","i","n","a","t","e","d">>,
   <<"c","o","m","p","l","e","t","e","d">>,
   <<"c","l","o","s","e","d">>}
SourceTag == <<"F","D","A">>
\* The comparison without .lower()
IsClosedExactCase(status) == status \in ClosedStatuses
\* (record.get("status") or "").lower() in ("terminated", "completed", "closed")
IsClosed(status) == Lower(status) \in ClosedStatuses

\* map_fda_to_db(record) evaluated on the calendar day `now`:
\* kind "dict" with the mapped row, "none" for a rejected record, "raise"
\* when a string method, a slice, strptime or re.search is applied to a
\* value that is not a string (AttributeError, TypeError).
map_fda_to_db(record, now) ==
  LET status == OrEmpty(record.status)
      name == OrEmpty(record.product_description)
      raw_date == OrEmpty(record.recall_initiation_date)
      code_info == OrEmpty(record.code_info)
      number == OrEmpty(record.recall_number)
      firm == OrEmpty(record.recalling_firm)
      reason == OrEmpty(record.reason_for_recall)
      class == OrEmpty(record.classification)
      distribution == OrEmpty(record.distribution_pattern)
      parsed == Strptime(raw_date.v)
      recall_date ==
        IF parsed.ok THEN Strftime(parsed)
        ELSE IF raw_date.v # <<>> THEN raw_date.v ELSE Strftime(now)
      found == _extract_upc_from_code_info(code_info.v)
      recall_number == Strip(number.v)
      upc == IF found # <<>> THEN found
             ELSE IF recall_number # <<>> THEN SourceTag \o <<"-">> \o recall_number
             ELSE <<>>
  IN IF status.t # "str" THEN Raised
     ELSE IF IsClosed(status.v) THEN Rejected
     ELSE IF name.t # "str" THEN Raised
     ELSE IF Strip(name.v) = <<>> THEN Rejected
     ELSE IF raw_date.t # "str" \/ code_info.t # "str" THEN Raised
     ELSE IF found = <<>> /\ number.t # "str" THEN Raised
     ELSE IF upc = <<>> THEN Rejected
     ELSE IF \E x \in {firm, reason, class, distribution} : x.t # "str" THEN Raised
     ELSE [kind |-> "dict",
           rec |-> [upc |-> upc,
                    product_name |-> Take(Strip(name.v), NameWidth),
                    brand_name |-> Take(firm.v, FirmWidth),
                    recall_date |-> recall_date,
                    reason |-> Take(reason.v, ReasonWidth),
                    severity |-> Take(class.v, SeverityWidth),
                    firm_name |-> Take(firm.v, FirmWidth),
                    distribution_pattern |-> Take(distribution.v, DistributionWidth),
                    source |-> SourceTag]]

\* map_usda_to_db(record): the stub rejects every record.
map_usda_to_db(record) == Rejected

\* ------------------------------------------------------------- sample data
Upc == <<"0","1","2","3","4","5","6","7","8","9","0","5">>
\* {name: "PB", date: "20240115", status: "Ongoing", code_info: "UPC 012345678905"}
RawA ==
  [status |-> PyStr(<<"O","n","g","o","i","n","g">>),
   product_description |-> PyStr(<<"P","B">>),
   recall_initiation_date |-> PyStr(<<"2","0","2","4","0","1","1","5">>),
   code_info |-> PyStr(<<"U","P","C"," ">> \o Upc),
   recall_number |-> PyStr(<<"F","1">>),
   recalling_firm |-> PyStr(<<"A">>),
   reason_for_recall |-> PyStr(<<"a">>),
   classification |-> PyStr(<<"I">>),
   distribution_pattern |-> PyStr(<<"U","S">>)]
\* the same product with no initiation date and other non-key fields
RawNoDate ==
  [RawA EXCEPT !.recall_initiation_date = PyNone,
               !.recalling_firm = PyStr(<<"B">>), !.reason_for_recall = PyStr(<<"b">>)]
\* a closed recall
RawTerminated ==
  [RawA EXCEPT !.status = PyStr(<<"T","e","r","m","i","n","a","t","e","d">>)]
\* the date as a JSON number
RawIntDate == [RawA EXCEPT !.recall_initiation_date = PyInt]
\* a name of white space only
RawNoName == [RawA EXCEPT !.product_description = PyStr(<<" ">>)]
\* no UPC in code_info and no recall number
RawNoIdentifier ==
  [RawA EXCEPT !.code_info = PyStr(<<"l","o","t"," ","7">>), !.recall_number = PyNone]
RawRecords == {RawA, RawNoDate, RawTerminated, RawIntDate, RawNoName, RawNoIdentifier}


\* Raw records for the normalizer alone: RawA with every combination of these
\* statuses, names, dates, code texts and recall numbers.
NormStatuses ==
  {PyNone, PyInt, PyStr(<<"O","n","g","o","i","n","g">>), PyStr(<<"T","e","r","m","i","n","a","t","e","d">>), PyStr(<<"C","L","O","S","E","D">>), PyStr(<<"c","o","m","p","l","e","t","e","d">>), PyStr(<<"T","e","r","m","i","n","a","t","e","d"," ">>)}
NormNames == {PyStr(<<"P","B">>), PyStr(<<" ">>)}
NormDates ==
  {PyNone, PyInt, PyStr(<<>>), PyStr(<<"2","0","2","4","0","1","1","5">>), PyStr(<<"2","0","2","4","0","2","3","0">>), PyStr(<<"2","0","2","4","1","1","5">>), PyStr(<<"2","0","2","4","-","0","1","-","1","5">>), PyStr(<<"0","1","/","1","5","/","2","0","2","4">>)}
NormCodes ==
  {PyNone, PyStr(<<"l","o","t"," ","7">>), PyStr(<<"U","P","C"," ">> \o Upc),
   PyStr(<<"X">> \o Upc), PyStr(Upc \o <<"0">>), PyStr(Upc \o <<"0","1">>),
   PyStr(<<"9","9","9","9","9","9","9","9","9","9","9","9">> \o <<" ">> \o Upc)}
NormNumbers == {PyNone, PyStr(<<" ">>), PyStr(<<"F","1">>), PyStr(<<" ","F","1"," ">>)}
NormRecords ==
  {[RawA EXCEPT !.status = s, !.product_description = n, !.recall_initiation_date = d,
                !.code_info = c, !.recall_number = k] :
     s \in NormStatuses, n \in NormNames, d \in NormDates, c \in NormCodes,
     k \in NormNumbers}

Users == {7}
CartUpcs == {Upc}
Threads == {"startup", "timer", "manual"}

\* The calendar day the clock shows: day 1 is FirstDay, the day the recall
\* of RawA was initiated.
FirstDay == [y |-> 2024, m |-> 1, d |-> 15]
NextDate(x) ==
  IF x.d < DaysInMonth(x.y, x.m) THEN [x EXCEPT !.d = x.d + 1]
  ELSE IF x.m < 12 THEN [y |-> x.y, m |-> x.m + 1, d |-> 1]
  ELSE [y |-> x.y + 1, m |-> 1, d |-> 1]
RECURSIVE DateOf(_)
DateOf(n) == IF n <= 1 THEN FirstDay ELSE NextDate(DateOf(n - 1))

\* ------------------------------------------------------------------- state
VARIABLES
  today,        \* datetime.now(), as a day number
  recalls,      \* table recalls: a set of rows, id is the serial key
  user_carts,   \* table user_carts: rows [user_id, product_upc]
  alerts,       \* table alerts: a bag of rows [user_id, recall_id, product_upc, created_at]
  scheduler,    \* _scheduler: "none", or "running" once started
  pc,           \* position of each thread in run_recall_refresh
  run,          \* the locals of each thread's run_recall_refresh
  runs,         \* number of timer and manual runs started
  last_write,   \* history: the payload of the latest successful upsert of each key
  wake,         \* history: the scheduler's latest wake-up for the job, cleared when
                \* the job instance ends
  norm,         \* the normalizer applied to one raw record: its arguments and result
  calls,        \* history: number of calls of start_recall_scheduler
  schedulers    \* number of BackgroundScheduler objects started, each with its
                \* recall_refresh job

vars == <<today, recalls, user_carts, alerts, scheduler, pc, run, runs, last_write, wake, norm, calls, schedulers>>

\* ------------------------------------------------------------ table recalls
\* UNIQUE (upc, recall_date), the target of ON CONFLICT
SameKey(a, b) == a.upc = b.upc /\ a.recall_date = b.recall_date
Conflicting(rows, rec) == {r \in rows : SameKey(r, rec)}
NextId(rows) == Cardinality(rows) + 1
Row(rec, id) ==
  [id |-> id, upc |-> rec.upc, recall_date |-> rec.recall_date,
   product_name |-> rec.product_name, brand_name |-> rec.brand_name,
   reason |-> rec.reason, severity |-> rec.severity, firm_name |-> rec.firm_name,
   distribution_pattern |-> rec.distribution_pattern, source |-> rec.source]

\* A plain INSERT: no conflict target, no unique key
UpsertRowsPlainInsert(rows, rec) == rows \cup {Row(rec, NextId(rows))}
\* DO UPDATE SET without "reason = EXCLUDED.reason"
UpsertRowsKeepReason(rows, rec) ==
  IF Conflicting(rows, rec) = {}
    THEN rows \cup {Row(rec, NextId(rows))}
    ELSE {IF SameKey(r, rec) THEN [Row(rec, r.id) EXCEPT !.reason = r.reason] ELSE r :
            r \in rows}
\* Delete and insert in the place of DO UPDATE: the row gets a new id
UpsertRowsNewId(rows, rec) ==
  LET ids == {r.id : r \in rows}
  IN {r \in rows : ~SameKey(r, rec)}
       \cup {Row(rec, IF ids = {} THEN 1
                      ELSE 1 + (CHOOSE i \in ids : \A j \in ids : j <= i))}
\* One row for each product: the rows of the upc are deleted, then the INSERT
UpsertRowsDeleteUpc(rows, rec) ==
  LET kept == {r \in rows : r.upc # rec.upc}
      ids == {r.id : r \in rows}
  IN kept \cup {Row(rec, IF ids = {} THEN 1
                         ELSE 1 + (CHOOSE i \in ids : \A j \in ids : j <= i))}
\* INSERT ... ON CONFLICT (upc, recall_date) DO UPDATE SET <every non-key column>
UpsertRows(rows, rec) ==
  IF Conflicting(rows, rec) = {}
    THEN rows \cup {Row(rec, NextId(rows))}
    ELSE {IF SameKey(r, rec) THEN Row(rec, r.id) ELSE r : r \in rows}
\* The upsert meets a stored row of its key with another non-key field.
Overwrites(rows, rec) == \E r \in Conflicting(rows, rec) : r # Row(rec, r.id)
\* bool(result): any returned row counts as an insert
UpsertInsertedAnyRow(rows, rec) == TRUE
\* RETURNING (xmax = 0) AS inserted, read by bool(result and result[0].get("inserted"))
UpsertInserted(rows, rec) == Conflicting(rows, rec) = {}

\* ------------------------------------------------------------- table alerts
\* UNIQUE (user_id, recall_id)
AlertConflict(rows, pair) ==
  \E a \in BagToSet(rows) : a.user_id = pair.user_id /\ a.recall_id = pair.recall_id
\* The INSERT's parameters in the order (recall_id, user_id, product_upc)
AlertRowSwapped(pair, at) ==
  [user_id |-> pair.recall_id, recall_id |-> pair.user_id,
   product_upc |-> pair.product_upc, created_at |-> at]
\* INSERT INTO alerts (user_id, recall_id, product_upc, created_at)
AlertRow(pair, at) ==
  [user_id |-> pair.user_id, recall_id |-> pair.recall_id,
   product_upc |-> pair.product_upc, created_at |-> at]
\* The INSERT with no conflict to meet
InsertAlertNoConflict(rows, pair, at) == rows (+) SetToBag({AlertRow(pair, at)})
\* INSERT INTO alerts ... VALUES (user_id, recall_id, product_upc, NOW()) ON CONFLICT DO NOTHING
InsertAlert(rows, pair, at) ==
  IF AlertConflict(rows, pair) THEN rows ELSE rows (+) SetToBag({AlertRow(pair, at)})

\* The join without "LEFT JOIN alerts ... WHERE a.id IS NULL"
SelectAllPairs(carts, recs, alrts) ==
  {[user_id |-> uc.user_id, recall_id |-> r.id, product_upc |-> uc.product_upc] :
     uc \in carts, r \in {x \in recs : \E c \in carts : c.product_upc = x.upc}}
\* SELECT DISTINCT uc.user_id, r.id, uc.product_upc FROM user_carts uc
\*   JOIN recalls r ON uc.product_upc = r.upc
\*   LEFT JOIN alerts a ON a.user_id = uc.user_id AND a.recall_id = r.id
\*   WHERE a.id IS NULL
SelectNewPairs(carts, recs, alrts) ==
  {p \in {[user_id |-> uc.user_id, recall_id |-> r.id, product_upc |-> uc.product_upc] :
            uc \in carts, r \in {x \in recs : \E c \in carts : c.product_upc = x.upc}} :
     /\ \E r \in recs : r.id = p.recall_id /\ r.upc = p.product_upc
     /\ ~\E a \in BagToSet(alrts) : a.user_id = p.user_id /\ a.recall_id = p.recall_id}

\* ------------------------------------------------------------ source fetch
\* What the openFDA request can produce: a failure ("error": a transport
\* failure, a timeout, a body that is not JSON, or an HTTP error status, whose
\* body may still hold n records), a body whose "results" is a list of n
\* records, or a body whose "results" is present but null.
Responses ==
  {[kind |-> "null", n |-> 0]}
    \cup {[kind |-> k, n |-> i] : k \in {"error", "list"}, i \in 0..MaxBatch}
\* fetch_fda_recalls without its except clause
fetch_fda_recalls_uncaught(resp) == resp
\* fetch_fda_recalls without resp.raise_for_status(): the body of an error
\* response is read like any other
fetch_fda_recalls_no_status_check(resp) ==
  IF resp.kind = "null" THEN resp ELSE [kind |-> "list", n |-> resp.n]
\* fetch_fda_recalls(): the except clause turns an error into [];
\* data.get("results", []) hands a null "results" through as None.
fetch_fda_recalls(resp) ==
  IF resp.kind = "error" THEN [kind |-> "list", n |-> 0] ELSE resp
\* fetch_usda_recalls(): the stub returns []
fetch_usda_recalls == [kind |-> "list", n |-> 0]

\* ----------------------------------------------------- watchlist and alerts
\* The (watcher, recall) pairs whose watchlist entry names the recall's product
JoinPairs ==
  {[user_id |-> uc.user_id, recall_id |-> r.id, product_upc |-> r.upc] :
     uc \in user_carts, r \in {x \in recalls : \E c \in user_carts : c.product_upc = x.upc}}
\* Number of Alert rows of the pair (user, recall)
RECURSIVE SumCopies(_, _)
SumCopies(S, B) ==
  IF S = {} THEN 0
  ELSE LET a == CHOOSE x \in S : TRUE IN CopiesIn(a, B) + SumCopies(S \ {a}, B)
AlertCount(u, r) ==
  SumCopies({a \in BagToSet(alerts) : a.user_id = u /\ a.recall_id = r}, alerts)
Unalerted == {p \in JoinPairs : AlertCount(p.user_id, p.recall_id) = 0}
InProgress(t) == pc[t] \notin {"idle", "returned", "raised"}

\* ---------------------------------------------------------------- scheduler
\* How late the scheduler thread can be at a wake-up: on time, at the end of
\* the grace window or one second past it, with up to MaxMissed scheduled
\* times due.
Delays ==
  {k * IntervalSeconds + l :
     k \in 0..(MaxMissed - 1), l \in {0, MisfireGraceTime, MisfireGraceTime + 1}}
\* The scheduler thread is on time.
OnTime == {0}
\* job._get_run_times(now): the scheduled times that are due, each as the
\* number of seconds it lies in the past
DueTimes(delay) == {delay - j * IntervalSeconds : j \in 0..(delay \div IntervalSeconds)}
Latest(times) == CHOOSE l \in times : \A k \in times : l <= k
\* No coalescing and no grace window: every due time is executed
JobRunTimesAll(delay) == DueTimes(delay)
\* The job has no coalesce argument, so the scheduler's default coalesces the
\* due times into the latest; run_job then skips a run time that is more
\* than misfire_grace_time in the past.
JobRunTimes(delay) == {l \in {Latest(DueTimes(delay))} : ~(l > MisfireGraceTime)}
NoWake == [outcome |-> "none", due |-> 0, late |-> 0, execs |-> 0]
\* No limit on the instances of the job
InstancesUnlimited(instances) == FALSE
\* submit_job raises MaxInstancesReachedError: max_instances=1
InstancesReached(instances) == instances >= MaxInstances

\* ---------------------------------------------------------------- actions
NewRun ==
  [fetched |-> 0, todo |-> 0, inserted |-> 0, skipped |-> 0,
   new_pairs |-> {}, count |-> 0, alerts_generated |-> 0,
   \* history of the run, read by the properties only
   fetch_failed |-> FALSE, changed |-> FALSE, usda_fetched |-> FALSE,
   fanout_calls |-> 0, unalerted |-> 0, select_failed |-> FALSE,
   insert_failed |-> FALSE, created |-> 0, before |-> {},
   \* history of the FDA loop, cleared when the loop is left
   rejected |-> 0, upsert_failed |-> 0]

\* No call of the normalizer alone
NoNorm == [at |-> "none", raw |-> RawA, out |-> Rejected]

Init ==
  /\ today = 1
  /\ recalls = {}
  /\ user_carts = {}
  /\ alerts = EmptyBag
  /\ scheduler = "none"
  /\ pc = [t \in Threads |-> "idle"]
  /\ run = [t \in Threads |-> NewRun]
  /\ runs = 0
  /\ last_write = {}
  /\ wake = NoWake
  /\ norm = NoNorm
  /\ calls = 0
  /\ schedulers = 0

\* run_recall_refresh() is entered by thread t
Begin(t) ==
  /\ pc' = [pc EXCEPT ![t] = "fetch_fda"]
  /\ run' = [run EXCEPT ![t] = NewRun]

\* An exception leaves run_recall_refresh(): no summary is returned.
Propagate(t) == pc' = [pc EXCEPT ![t] = "raised"]

\* The application serves requests once the startup handler has returned.
Serving == scheduler = "running" /\ pc["startup"] = "idle"

\* start_recall_scheduler() with the immediate run commented out
StartSchedulerNoInitialRun ==
  /\ pc["startup"] = "idle"
  /\ calls < MaxCalls
  /\ calls' = calls + 1
  /\ scheduler' = "running"
  /\ schedulers' = schedulers + 1
  /\ UNCHANGED <<today, recalls, user_carts, alerts, pc, run, runs, last_write, wake, norm>>
\* start_recall_scheduler() without "if _scheduler and _scheduler.running: return"
StartSchedulerUnguarded ==
  /\ pc["startup"] = "idle"
  /\ calls < MaxCalls
  /\ calls' = calls + 1
  /\ scheduler' = "running"
  /\ schedulers' = schedulers + 1
  /\ Begin("startup")
  /\ UNCHANGED <<today, recalls, user_carts, alerts, runs, last_write, wake, norm>>
\* start_recall_scheduler(), called by on_startup
StartScheduler ==
  /\ pc["startup"] = "idle"
  /\ calls < MaxCalls
  /\ calls' = calls + 1
  /\ IF scheduler = "running"
       THEN \* if _scheduler and _scheduler.running: return
            UNCHANGED <<today, recalls, user_carts, alerts, scheduler, pc, run, runs,
                        last_write, wake, norm, schedulers>>
       ELSE /\ scheduler' = "running"
            /\ schedulers' = schedulers + 1
            /\ Begin("startup")
            /\ UNCHANGED <<today, recalls, user_carts, alerts, runs, last_write, wake, norm>>

\* The scheduler thread wakes up for the job `delay` seconds after the job's
\* next_run_time. submit_job refuses the job while MaxInstances instances of
\* it run (the firing is logged and skipped); otherwise the executor runs
\* run_recall_refresh for the run times JobRunTimes keeps.
TimerFire(delay) ==
  /\ scheduler = "running"
  /\ LET instances == IF pc["timer"] # "idle" THEN 1 ELSE 0
         times == JobRunTimes(delay)
         seen == [outcome |-> "missed", due |-> Cardinality(DueTimes(delay)),
                  late |-> Latest(DueTimes(delay)), execs |-> 0]
     IN IF InstancesReached(instances)
          THEN /\ wake' = [NoWake EXCEPT !.outcome = "dropped"]
               /\ UNCHANGED <<today, recalls, user_carts, alerts, scheduler, pc, run,
                              runs, last_write, norm, calls, schedulers>>
          ELSE IF times = {}
            THEN /\ wake' = seen
                 /\ UNCHANGED <<today, recalls, user_carts, alerts, scheduler, pc, run,
                                runs, last_write, norm, calls, schedulers>>
            ELSE /\ runs < MaxRuns
                 /\ runs' = runs + 1
                 /\ wake' = [seen EXCEPT !.outcome = "started",
                                         !.execs = Cardinality(times)]
                 /\ Begin("timer")
                 /\ UNCHANGED <<today, recalls, user_carts, alerts, scheduler, last_write,
                              norm, calls, schedulers>>

\* POST /api/admin/refresh-recalls: asyncio.to_thread(run_recall_refresh)
ManualTrigger ==
  /\ Serving
  /\ pc["manual"] = "idle"
  /\ runs < MaxRuns
  /\ runs' = runs + 1
  /\ Begin("manual")
  /\ UNCHANGED <<today, recalls, user_carts, alerts, scheduler, last_write, wake, norm, calls, schedulers>>

\* fda_raw = fetch_fda_recalls(); len(fda_raw)
FetchFda(t) ==
  /\ pc[t] = "fetch_fda"
  /\ \E resp \in Responses :
       LET fda_raw == fetch_fda_recalls(resp)
       IN IF fda_raw.kind = "list"
            THEN /\ run' = [run EXCEPT ![t].fetched = fda_raw.n,
                                       ![t].todo = fda_raw.n,
                                       ![t].fetch_failed = (resp.kind = "error")]
                 /\ pc' = [pc EXCEPT ![t] = "loop_fda"]
            ELSE \* len(fda_raw) raises TypeError
                 /\ run' = [run EXCEPT ![t].fetch_failed = (resp.kind = "error")]
                 /\ Propagate(t)
  /\ UNCHANGED <<today, recalls, user_carts, alerts, scheduler, runs, last_write, wake, norm, calls, schedulers>>

\* map_fda_to_db of every record of the feed on every day of the clock
Mapped == [raw \in RawRecords, d \in 1..MaxDay |-> map_fda_to_db(raw, DateOf(d))]

\* "break" in the place of "continue"
SkipAndStop(r) == [r EXCEPT !.skipped = @ + 1, !.todo = 0, !.rejected = @ + 1]
\* if not mapped: skipped += 1; continue
Skip(r) == [r EXCEPT !.skipped = @ + 1, !.todo = @ - 1, !.rejected = @ + 1]

\* The failed upsert ends the loop
UpsertFailedEndsBatch(r) ==
  [r EXCEPT !.skipped = @ + 1, !.todo = 0, !.upsert_failed = @ + 1]
\* upsert_recall caught the exception and returned False: skipped += 1
UpsertFailed(r) ==
  [r EXCEPT !.skipped = @ + 1, !.todo = @ - 1, !.upsert_failed = @ + 1]

\* One iteration of "for raw in fda_raw": map_fda_to_db, then upsert_recall.
\* The content of the page is the feed's choice; it is drawn when the loop
\* reaches the record.
LoopFda(t) ==
  /\ pc[t] = "loop_fda"
  /\ run[t].todo > 0
  /\ \E raw \in RawRecords :
       LET mapped == Mapped[raw, today]
       IN \/ /\ mapped.kind = "raise"
             /\ Propagate(t)
             /\ UNCHANGED <<run, recalls, last_write>>
          \/ /\ mapped.kind = "none"
             /\ run' = [run EXCEPT ![t] = Skip(@)]
             /\ UNCHANGED <<pc, recalls, last_write>>
          \/ \* execute_query raises: upsert_recall logs it and returns False
             /\ mapped.kind = "dict"
             /\ run' = [run EXCEPT ![t] = UpsertFailed(@)]
             /\ UNCHANGED <<pc, recalls, last_write>>
          \/ /\ mapped.kind = "dict"
             /\ recalls' = UpsertRows(recalls, mapped.rec)
             /\ last_write' = {w \in last_write : ~SameKey(w, mapped.rec)} \cup {mapped.rec}
             /\ IF UpsertInserted(recalls, mapped.rec)
                  THEN run' = [run EXCEPT ![t].inserted = @ + 1, ![t].todo = @ - 1]
                  ELSE run' = [run EXCEPT ![t].skipped = @ + 1, ![t].todo = @ - 1,
                                          ![t].changed = @ \/ Overwrites(recalls, mapped.rec)]
             /\ UNCHANGED pc
  /\ UNCHANGED <<today, user_carts, alerts, scheduler, runs, wake, norm, calls, schedulers>>

\* usda_raw = fetch_usda_recalls(); the loop over the empty list does nothing
Usda(t) ==
  /\ pc[t] = "loop_fda"
  /\ run[t].todo = 0
  /\ run' = [run EXCEPT ![t].fetched = @ + fetch_usda_recalls.n, ![t].usda_fetched = TRUE,
                           ![t].rejected = 0, ![t].upsert_failed = 0]
  /\ pc' = [pc EXCEPT ![t] = "select"]
  /\ UNCHANGED <<today, recalls, user_carts, alerts, scheduler, runs, last_write, wake, norm, calls, schedulers>>

\* return summary
ReturnSummary(t, n, failed) ==
  /\ run' = [run EXCEPT ![t].alerts_generated = n, ![t].fanout_calls = 1,
                         ![t].select_failed = failed]
  /\ pc' = [pc EXCEPT ![t] = "returned"]

\* generate_alerts_for_new_recalls(): the SELECT of the pairs without alert
SelectPairs(t) ==
  /\ pc[t] = "select"
  /\ \/ \* execute_query raises: the outer except returns 0
        /\ ReturnSummary(t, 0, TRUE)
     \/ /\ run' = [run EXCEPT ![t].new_pairs = SelectNewPairs(user_carts, recalls, alerts),
                              ![t].count = 0, ![t].fanout_calls = 1,
                              ![t].unalerted = Cardinality(Unalerted),
                              ![t].before = Unalerted]
        /\ pc' = [pc EXCEPT ![t] = "insert"]
  /\ UNCHANGED <<today, recalls, user_carts, alerts, scheduler, runs, last_write, wake, norm, calls, schedulers>>

\* count += 1 placed before the INSERT
InsertFailedCounted(r, pair) ==
  [r EXCEPT !.new_pairs = @ \ {pair}, !.count = @ + 1, !.insert_failed = TRUE]
\* execute_query raised inside the loop: logged, the loop goes on
InsertFailed(r, pair) == [r EXCEPT !.new_pairs = @ \ {pair}, !.insert_failed = TRUE]

\* One iteration of "for pair in new_pairs": the INSERT, then count += 1
InsertPair(t) ==
  /\ pc[t] = "insert"
  /\ \E pair \in run[t].new_pairs :
       \/ \* execute_query raises: logged, the pair is not counted
          /\ run' = [run EXCEPT ![t] = InsertFailed(@, pair)]
          /\ UNCHANGED alerts
       \/ /\ alerts' = InsertAlert(alerts, pair, today)
          /\ run' = [run EXCEPT ![t].new_pairs = @ \ {pair},
                                ![t].count = @ + 1,
                                ![t].created =
                                  @ + BagCardinality(alerts') - BagCardinality(alerts)]
  /\ UNCHANGED <<today, recalls, user_carts, scheduler, pc, runs, last_write, wake, norm, calls, schedulers>>

\* return count, then the summary of run_recall_refresh
Finish(t) ==
  /\ pc[t] = "insert"
  /\ run[t].new_pairs = {}
  /\ ReturnSummary(t, run[t].count, FALSE)
  /\ UNCHANGED <<today, recalls, user_carts, alerts, scheduler, runs, last_write, wake, norm, calls, schedulers>>

\* The caller has the result of run_recall_refresh(): the summary, or the
\* exception (logged by the scheduler or by the startup handler, an error
\* response of the manual endpoint). The thread is free again.
Return(t) ==
  /\ pc[t] \in {"returned", "raised"}
  /\ pc' = [pc EXCEPT ![t] = "idle"]
  /\ run' = [run EXCEPT ![t] = NewRun]
  /\ wake' = IF t = "timer" THEN NoWake ELSE wake
  /\ UNCHANGED <<today, recalls, user_carts, alerts, scheduler, runs, last_write, norm, calls, schedulers>>

\* POST /api/user/cart: INSERT ... ON CONFLICT (user_id, product_upc) DO NOTHING
add_to_cart(u, upc) ==
  /\ Serving
  /\ user_carts' = user_carts \cup {[user_id |-> u, product_upc |-> upc]}
  /\ UNCHANGED <<today, recalls, alerts, scheduler, pc, run, runs, last_write, wake, norm, calls, schedulers>>

\* DELETE /api/user/cart/{user_id}/{upc}
remove_from_cart(u, upc) ==
  /\ Serving
  /\ user_carts' = user_carts \ {[user_id |-> u, product_upc |-> upc]}
  /\ UNCHANGED <<today, recalls, alerts, scheduler, pc, run, runs, last_write, wake, norm, calls, schedulers>>

\* Midnight passes.
Tick ==
  /\ today < MaxDay
  /\ today' = today + 1
  /\ UNCHANGED <<recalls, user_carts, alerts, scheduler, pc, run, runs, last_write, wake, norm, calls, schedulers>>

Next ==
  \/ calls = 0 /\ StartScheduler
  \/ \E delay \in OnTime : TimerFire(delay)
  \/ ManualTrigger
  \/ \E t \in Threads : FetchFda(t)
  \/ \E t \in Threads : LoopFda(t)
  \/ \E t \in Threads : Usda(t)
  \/ \E t \in Threads : SelectPairs(t)
  \/ \E t \in Threads : InsertPair(t)
  \/ \E t \in Threads : Finish(t)
  \/ \E t \in Threads : Return(t)
  \/ \E u \in Users, upc \in CartUpcs : add_to_cart(u, upc)
  \/ \E u \in Users, upc \in CartUpcs : remove_from_cart(u, upc)
  \/ Tick

Spec == Init /\ [][Next]_vars

\* Runs one after the other: a trigger, a cart request or midnight comes
\* only while no run is in progress.
Quiet == \A t \in Threads : pc[t] = "idle"
NextSeq ==
  \/ Quiet /\ StartScheduler
  \/ \E delay \in OnTime : Quiet /\ TimerFire(delay)
  \/ Quiet /\ ManualTrigger
  \/ \E t \in Threads : FetchFda(t)
  \/ \E t \in Threads : LoopFda(t)
  \/ \E t \in Threads : Usda(t)
  \/ \E t \in Threads : SelectPairs(t)
  \/ \E t \in Threads : InsertPair(t)
  \/ \E t \in Threads : Finish(t)
  \/ \E t \in Threads : Return(t)
  \/ \E u \in Users, upc \in CartUpcs : Quiet /\ add_to_cart(u, upc)
  \/ \E u \in Users, upc \in CartUpcs : Quiet /\ remove_from_cart(u, upc)
  \/ Quiet /\ Tick

SpecSeq == Init /\ [][NextSeq]_vars

\* The scheduler alone: the application starts and the scheduler thread
\* wakes up at any moment, late or not. Nobody has a cart and no manual
\* refresh is requested, so a fan-out finds no pair to insert.
NextSched ==
  \/ calls = 0 /\ StartScheduler
  \/ \E delay \in Delays : TimerFire(delay)
  \/ \E t \in Threads : FetchFda(t)
  \/ \E t \in Threads : LoopFda(t)
  \/ \E t \in Threads : Usda(t)
  \/ \E t \in Threads : SelectPairs(t)
  \/ \E t \in Threads : Finish(t)
  \/ \E t \in Threads : Return(t)

SpecSched == Init /\ [][NextSched]_vars

\* The normalizer alone: map_fda_to_db is called with any record of
\* NormRecords on any day of the clock.
InitNorm ==
  /\ today \in 1..MaxDay
  /\ recalls = {}
  /\ user_carts = {}
  /\ alerts = EmptyBag
  /\ scheduler = "none"
  /\ pc = [t \in Threads |-> "idle"]
  /\ run = [t \in Threads |-> NewRun]
  /\ runs = 0
  /\ last_write = {}
  /\ wake = NoWake
  /\ norm \in {[at |-> "called", raw |-> r, out |-> Rejected] : r \in NormRecords}
  /\ calls = 0
  /\ schedulers = 0

\* mapped = map_fda_to_db(raw)
Normalize ==
  /\ norm.at = "called"
  /\ norm' = [norm EXCEPT !.at = "returned", !.out = map_fda_to_db(norm.raw, DateOf(today))]
  /\ UNCHANGED <<today, recalls, user_carts, alerts, scheduler, pc, run, runs, last_write,
                 wake, calls, schedulers>>

NextNorm == Normalize

SpecNorm == InitNorm /\ [][NextNorm]_vars

\* ================================================================ properties

\* C1: in every reachable state, whatever mix of timer, manual and startup
\* runs has executed and however they overlapped, the alerts table holds at
\* most one row for each (user_id, recall_id) pair.
C1_AlertPairUnique ==
  \A a \in BagToSet(alerts) :
    /\ CopiesIn(a, alerts) = 1
    /\ \A b \in BagToSet(alerts) :
         (b.user_id = a.user_id /\ b.recall_id = a.recall_id) => b = a
\* A run has returned whose INSERT met the row of an overlapping fan-out.
C1_Witness ==
  \E t \in Threads :
    pc[t] = "returned" /\ run[t].count > run[t].created /\ alerts # EmptyBag

\* C2: no two executions of run_recall_refresh are in progress at once; in
\* particular a manual trigger issued while a timer-driven run is active
\* never gives two concurrent writers. Stated for that particular case.
C2_ManualNeverOverlapsTimerRun == ~(InProgress("timer") /\ InProgress("manual"))

\* C3: ingesting a raw record the normalizer accepts a second time, in the
\* same run or in a later run on a later day, leaves exactly one recalls row
\* for it: no two stored rows are the normalized image of one raw record.
C3_OneRowPerRawRecord ==
  \A raw \in RawRecords :
    Cardinality({r \in recalls :
                   \E d \in 1..MaxDay :
                     /\ Mapped[raw, d].kind = "dict"
                     /\ r = Row(Mapped[raw, d].rec, r.id)}) <= 1

\* C4: in every reachable state no two rows of recalls share (upc,
\* recall_date), also when two upserts of the same key overlap.
C4_RecallKeyUnique == \A a, b \in recalls : SameKey(a, b) => a = b
\* Two overlapping runs are in their upsert loops on the first day with one
\* stored row: one inserted it, the other overwrote it.
C4_Witness ==
  \E t1, t2 \in Threads :
    /\ t1 # t2
    /\ pc[t1] = "loop_fda" /\ pc[t2] = "loop_fda"
    /\ run[t1].inserted >= 1 /\ run[t2].changed
    /\ today = 1 /\ Cardinality(recalls) = 1

\* C5: with the watchlist and the recalls fixed, fan-outs run one after the
\* other leave exactly one alert for every matching pair; a fan-out returns
\* the number of pairs that had no alert before it and creates that many
\* rows, hence 0 and no row once every pair has its alert.
C5_AlertExactlyOnce ==
  \A t \in Threads :
    (pc[t] = "returned" /\ ~run[t].select_failed /\ ~run[t].insert_failed) =>
      /\ \A p \in JoinPairs : AlertCount(p.user_id, p.recall_id) = 1
      /\ run[t].alerts_generated = run[t].unalerted
      /\ run[t].created = run[t].unalerted
\* A fan-out over a pair that already had its alert has returned 0.
C5_Witness ==
  \E t \in Threads :
    /\ pc[t] = "returned" /\ ~run[t].select_failed /\ ~run[t].insert_failed
    /\ JoinPairs # {}
    /\ run[t].alerts_generated = 0 /\ run[t].created = 0

\* C6: an upsert is reported as inserted exactly when it created a row whose
\* (upc, recall_date) no stored row had before the call.
C6_UpsertReportsInsert ==
  [][\A t \in Threads :
       (pc[t] = "loop_fda" /\ run'[t].todo = run[t].todo - 1) =>
         ((run'[t].inserted = run[t].inserted + 1)
            <=> (\E r \in recalls' : \A q \in recalls : ~SameKey(q, r)))]_vars
\* One run had an upsert reported inserted and another reported updated.
C6_Witness == \E t \in Threads : run[t].inserted >= 1 /\ run[t].changed

\* C7: after any sequence of successful upserts of one key, every non-key
\* column of the stored row is that of the latest upsert.
C7_LastWriteWins ==
  /\ \A r \in recalls : \E w \in last_write : r = Row(w, r.id)
  /\ \A w \in last_write : \E r \in recalls : SameKey(r, w)
\* An upsert has overwritten a row that held another payload.
C7_Witness == \E t \in Threads : run[t].changed /\ recalls # {}

\* C8: no exception of a per-record or per-source step leaves
\* run_recall_refresh: every run returns a summary.
C8_NoExceptionEscapes == \A t \in Threads : pc[t] # "raised"

\* C9: a run whose FDA fetch failed does not stop there: it does not raise,
\* and when it has returned it has fetched the other source and has invoked
\* the fan-out once.
C9_SourceIsolation ==
  \A t \in Threads :
    run[t].fetch_failed =>
      /\ pc[t] # "raised"
      /\ pc[t] \in {"select", "insert", "returned"} => run[t].usda_fetched
      /\ pc[t] = "returned" => run[t].fanout_calls = 1
\* A run whose fetch failed has returned after its fan-out.
C9_Witness ==
  \E t \in Threads :
    /\ run[t].fetch_failed /\ pc[t] = "returned"
    /\ run[t].usda_fetched /\ run[t].fanout_calls = 1 /\ ~run[t].select_failed

\* C10: the value the fan-out returns is the number of alert rows that
\* invocation created, also when a concurrent fan-out inserted the same pair
\* and when some inserts fail.
C10_CountIsCreated ==
  \A t \in Threads : pc[t] = "returned" => run[t].alerts_generated = run[t].created

\* C11: a timer firing while a timer-driven run is in flight is dropped, not
\* queued: the step of the firing leaves every run where it is and starts
\* none, a run in flight is never started over, a finished run is followed
\* by no run of its own, and the timer's next run starts only at a firing.
C11_BusyFiringDropped ==
  [][/\ (wake'.outcome = "dropped" /\ wake.outcome # "dropped") =>
          (pc["timer"] # "idle" /\ pc' = pc /\ run' = run /\ runs' = runs)
     /\ (pc["timer"] # "idle" /\ pc'["timer"] # pc["timer"]) =>
          \/ pc'["timer"] = "idle" /\ pc["timer"] \in {"returned", "raised"}
          \/ pc'["timer"] # "fetch_fda" /\ pc["timer"] \notin {"returned", "raised"}
     /\ (pc["timer"] = "idle" /\ pc'["timer"] # "idle") =>
          (wake'.outcome = "started" /\ runs' = runs + 1)]_vars
\* A firing was dropped during a timer-driven run, and that run has returned
\* its summary.
C11_Witness ==
  /\ wake.outcome = "dropped" /\ pc["timer"] = "returned"
  /\ run["timer"].inserted >= 1 /\ run["timer"].fanout_calls = 1

\* C12: every run invokes the alert fan-out exactly once, and only after the
\* fetch, normalize and upsert steps of both sources: a run that has ended
\* has invoked it once, and a run that has invoked it has drained the FDA
\* page and the USDA source and is past its upsert loops for good.
C12_FanOutOnceAfterSources ==
  \A t \in Threads :
    /\ pc[t] \in {"returned", "raised"} => run[t].fanout_calls = 1
    /\ run[t].fanout_calls >= 1 =>
         /\ run[t].fanout_calls = 1
         /\ run[t].todo = 0 /\ run[t].usda_fetched
         /\ pc[t] \in {"insert", "returned"}

\* C13: a raw record the normalizer rejects adds exactly 1 to the run's
\* skipped count and nothing to its inserted count, creates no recalls row,
\* changes none, and leaves the run in its loop with the remaining records
\* of the page still to be processed.
C13_RejectedRecordSkipped ==
  [][\A t \in Threads :
       run'[t].rejected = run[t].rejected + 1 =>
         /\ run'[t].skipped = run[t].skipped + 1
         /\ run'[t].inserted = run[t].inserted
         /\ recalls' = recalls
         /\ pc'[t] = "loop_fda"
         /\ run'[t].todo = run[t].todo - 1]_vars
\* The first record of a page of two was rejected and the second is still
\* to be processed.
C13_Witness ==
  \E t \in Threads :
    /\ pc[t] = "loop_fda" /\ run[t].fetched = 2 /\ run[t].todo = 1
    /\ run[t].rejected = 1 /\ run[t].skipped = 1

\* C14: the step that starts the scheduler also begins one run, at once; no
\* other step begins a startup run and the scheduler is started once, so
\* there is exactly one. That run is none of the interval job's: it leaves
\* the job's count and wake-up history alone, and a firing that comes while
\* the startup run is in progress and no timer-driven run is in flight is
\* not dropped: it starts the timer-driven run beside the startup run
\* (unless it is past the grace window).
C14_StartupRunBesideTimerRuns ==
  [][/\ (scheduler = "none" /\ scheduler' = "running") =>
          /\ pc["startup"] = "idle" /\ pc'["startup"] = "fetch_fda"
          /\ runs' = runs /\ wake' = wake /\ pc'["timer"] = pc["timer"]
     /\ (pc'["startup"] = "fetch_fda" /\ pc["startup"] # "fetch_fda") => scheduler = "none"
     /\ scheduler = "running" => scheduler' = "running"
     /\ (InProgress("startup") /\ pc["timer"] = "idle" /\ wake' # wake) =>
          /\ wake'.outcome \in {"started", "missed"}
          /\ wake'.outcome = "started" =>
               /\ pc'["timer"] = "fetch_fda"
               /\ pc'["startup"] = pc["startup"] /\ run'["startup"] = run["startup"]]_vars
\* The first timer-driven run is in its loop while the startup run is still
\* in its own.
C14_Witness ==
  /\ pc["startup"] = "loop_fda" /\ pc["timer"] = "loop_fda"
  /\ runs = 1 /\ wake.outcome = "started"

\* C15: when the scheduler thread wakes up late, with one or more scheduled
\* times due and no instance of the job in flight, and the latest of them is
\* at most 300 seconds in the past, the job is run, and run once, not once
\* for each due time; no wake-up runs the job more than once.
C15_OneCatchUpRun ==
  wake.outcome \in {"started", "missed"} =>
    /\ wake.due >= 1
    /\ wake.execs <= 1
    /\ wake.late <= 300 =>
         (wake.outcome = "started" /\ wake.execs = 1 /\ pc["timer"] # "idle")
\* Two scheduled times were due, the later one 300 seconds in the past; the
\* one catch-up run has returned.
C15_Witness ==
  /\ wake.outcome = "started" /\ wake.due = 2 /\ wake.late = 300 /\ wake.execs = 1
  /\ pc["timer"] = "returned"

\* C16: a source fetch that fails does not raise to the run and yields the
\* empty list: the run has fetched no record, has none to process, has
\* inserted and skipped none and has overwritten no row.
C16_FailedFetchIsEmpty ==
  \A t \in Threads :
    run[t].fetch_failed =>
      /\ pc[t] \in {"loop_fda", "select", "insert", "returned"}
      /\ run[t].fetched = 0 /\ run[t].todo = 0
      /\ run[t].inserted = 0 /\ run[t].skipped = 0 /\ ~run[t].changed
\* The fetch of a run failed while the store held a row of an earlier run;
\* the run has reached its fan-out with nothing fetched.
C16_Witness ==
  \E t \in Threads :
    /\ run[t].fetch_failed /\ pc[t] = "select"
    /\ run[t].fetched = 0 /\ recalls # {}

\* C17: no step deletes a recalls row or takes its key away, and no step
\* deletes or changes an alerts row: every stored recall key is still stored
\* after the step, under the same id, and every alerts row is still there
\* with the fields it was created with.
C17_StoresOnlyGrow ==
  [][/\ \A r \in recalls : \E q \in recalls' : SameKey(q, r) /\ q.id = r.id
     /\ \A a \in BagToSet(alerts) : CopiesIn(a, alerts') >= CopiesIn(a, alerts)]_vars
\* Two recalls are stored, one of them overwritten by the run in progress,
\* and an alert of an earlier day is still there.
C17_Witness ==
  /\ Cardinality(recalls) >= 2
  /\ \E a \in BagToSet(alerts) : a.created_at < today
  /\ \E t \in Threads : run[t].changed /\ run[t].inserted >= 1

\* C18: an update of a stored recall keeps the id the alerts refer to and a
\* fan-out after it re-alerts nobody: every alert refers to a stored recall
\* of its product, and a watcher has no more alerts for a product than
\* there are stored recalls of it.
C18_NoReAlertAfterUpdate ==
  \A u \in Users, upc \in CartUpcs :
    LET mine == {a \in BagToSet(alerts) : a.user_id = u /\ a.product_upc = upc}
    IN /\ \A a \in mine : \E r \in recalls : r.id = a.recall_id /\ r.upc = upc
       /\ SumCopies(mine, alerts) <= Cardinality({r \in recalls : r.upc = upc})
\* A run overwrote the one stored recall, whose watcher had been alerted on
\* an earlier day, and its fan-out has returned having created nothing.
C18_Witness ==
  \E t \in Threads :
    /\ pc[t] = "returned" /\ run[t].changed /\ ~run[t].select_failed
    /\ run[t].created = 0 /\ run[t].alerts_generated = 0
    /\ Cardinality(recalls) = 1
    /\ \E p \in JoinPairs : AlertCount(p.user_id, p.recall_id) = 1
    /\ \A a \in BagToSet(alerts) : a.created_at < today

\* C19: when a fan-out has finished and none of its statements failed, every
\* (watcher, recall) pair of the join that had no alert before it has an
\* alert, and the invocation itself created one row for each of those pairs
\* and no other row.
C19_FanOutCompleteAndExact ==
  \A t \in Threads :
    (pc[t] = "returned" /\ ~run[t].select_failed /\ ~run[t].insert_failed) =>
      /\ \A p \in run[t].before : AlertCount(p.user_id, p.recall_id) >= 1
      /\ run[t].created = Cardinality(run[t].before)

\* C20: with runs one after the other, when a run has ended and its storage
\* statements all succeeded, every watchlist entry with a stored recall of
\* its product has its alert, whichever of the two came first and however
\* often the recall was delivered: so every matching pair gets its alert as
\* runs keep being triggered.
C20_EndedRunLeavesPairsAlerted ==
  \A t \in Threads :
    (pc[t] \in {"returned", "raised"} /\ ~run[t].select_failed /\ ~run[t].insert_failed) =>
      Unalerted = {}

\* C21: the date of an accepted record. A raw date in YYYYMMDD form becomes
\* that calendar date as YYYY-MM-DD; a raw date that cannot be parsed (absent,
\* empty, or a text in another form) is replaced by today's date; so the
\* recall_date of every accepted record is a calendar date.
C21_DateIsParsedOrToday ==
  (norm.at = "returned" /\ norm.out.kind = "dict") =>
    LET raw == OrEmpty(norm.raw.recall_initiation_date).v
        date == norm.out.rec.recall_date
        Value(t) == 10 * DigitVal(t[1]) + DigitVal(t[2])
        InCalendar(y, m, d) ==
          /\ AllDigits(y) /\ AllDigits(m) /\ AllDigits(d)
          /\ Value(m) \in 1..12
          /\ Value(d) \in 1..DaysInMonth(100 * Value(SubSeq(y, 1, 2)) + Value(SubSeq(y, 3, 4)),
                                         Value(m))
        yyyymmdd ==
          /\ Len(raw) = 8
          /\ InCalendar(SubSeq(raw, 1, 4), SubSeq(raw, 5, 6), SubSeq(raw, 7, 8))
    IN /\ yyyymmdd =>
            date = SubSeq(raw, 1, 4) \o <<"-">> \o SubSeq(raw, 5, 6) \o <<"-">> \o SubSeq(raw, 7, 8)
       /\ ~Strptime(raw).ok => date = Strftime(DateOf(today))
       /\ Len(date) = 10
       /\ date[5] = "-" /\ date[8] = "-"
       /\ InCalendar(SubSeq(date, 1, 4), SubSeq(date, 6, 7), SubSeq(date, 9, 10))

\* C22: the product identifier of an accepted record is the first 12- or
\* 13-digit numeric token of the code text when there is one, otherwise
\* "FDA-" followed by the recall number when that is not empty; a record with
\* neither is rejected. So the identifier is never empty and a synthesized
\* one is never all digits.
C22_ProductIdRule ==
  norm.at = "returned" =>
    LET code == OrEmpty(norm.raw.code_info).v
        number == Strip(OrEmpty(norm.raw.recall_number).v)
        upc == norm.out.rec.upc
        tokens == {w \in (1..Len(code)) \X {12, 13} : DigitRunAt(code, w[1], w[2])}
        numbered == [norm.raw EXCEPT !.recall_number = PyStr(<<"F","1">>)]
    IN /\ norm.out.kind = "dict" =>
            /\ upc # <<>>
            /\ IF tokens # {}
                 THEN \E w \in tokens :
                        /\ upc = SubSeq(code, w[1], w[1] + w[2] - 1)
                        /\ \A x \in tokens : w[1] <= x[1]
                 ELSE /\ number # <<>>
                      /\ upc = <<"F","D","A","-">> \o number
                      /\ ~AllDigits(upc)
       /\ (tokens = {} /\ number = <<>>) =>
            /\ norm.out.kind # "dict"
            /\ map_fda_to_db(numbered, DateOf(today)).kind = "dict" => norm.out.kind = "none"
\* "lot 7 ... 01234567890501" holds no token: the record is accepted under
\* the synthesized identifier FDA-F1.
C22_Witness ==
  /\ norm.at = "returned"
  /\ norm.out.kind = "dict"
  /\ norm.raw.code_info = PyStr(Upc \o <<"0","1">>)
  /\ norm.raw.recall_number = PyStr(<<" ","F","1"," ">>)
  /\ norm.out.rec.upc = <<"F","D","A","-","F","1">>

\* C23: a record whose status is terminated, completed or closed in any
\* letter case is rejected; any other status text, or no status, has no
\* effect: the record fares as the same record without a status.
C23_ClosedStatusRejected ==
  (norm.at = "returned" /\ norm.raw.status.t \in {"str", "none"}) =>
    LET status == OrEmpty(norm.raw.status).v
        open == [norm.raw EXCEPT !.status = PyNone]
    IN IF Lower(status) \in ClosedStatuses
         THEN norm.out.kind = "none"
         ELSE norm.out = map_fda_to_db(open, DateOf(today))
\* "CLOSED" rejects a record that is accepted without its status.
C23_Witness ==
  /\ norm.at = "returned"
  /\ norm.raw.status = PyStr(<<"C","L","O","S","E","D">>)
  /\ norm.out.kind = "none"
  /\ map_fda_to_db([norm.raw EXCEPT !.status = PyNone], DateOf(today)).kind = "dict"

\* C24: a failed upsert counts its record as skipped and nothing else: the
\* rows stored so far stay as they are, nothing is counted as inserted, and
\* the loop goes on to the next record of the batch.
C24_UpsertFailureIsolated ==
  [][\A t \in Threads :
       run'[t].upsert_failed = run[t].upsert_failed + 1 =>
         /\ run'[t].skipped = run[t].skipped + 1
         /\ run'[t].inserted = run[t].inserted
         /\ run'[t].todo = run[t].todo - 1
         /\ pc'[t] = "loop_fda"
         /\ recalls' = recalls]_vars
\* A batch of two records is done: one upsert failed, the other stored its row.
C24_Witness ==
  \E t \in Threads :
    /\ pc[t] = "loop_fda"
    /\ run[t].fetched = 2 /\ run[t].todo = 0
    /\ run[t].upsert_failed = 1 /\ run[t].inserted = 1 /\ run[t].skipped = 1
    /\ Cardinality(recalls) = 1

\* C25: a failed Alert insert (a step of the insert loop that takes a pair
\* and adds no row, fan-outs running one after the other) leaves the stored
\* Alerts and the count as they are and keeps every other candidate pair for
\* the loop; the count a fan-out returns is the number of rows it created.
C25_InsertFailureIsolated ==
  [][\A t \in Threads :
       /\ (pc[t] = "insert" /\ run'[t].new_pairs # run[t].new_pairs /\ alerts' = alerts) =>
            /\ \E pair \in run[t].new_pairs : run'[t].new_pairs = run[t].new_pairs \ {pair}
            /\ run'[t].count = run[t].count
            /\ run'[t].insert_failed
            /\ pc'[t] = "insert"
       /\ (pc'[t] = "returned" /\ run'[t].insert_failed) =>
            /\ run'[t].alerts_generated = run'[t].created
            /\ run'[t].alerts_generated < Cardinality(run'[t].before)]_vars
\* Of two candidate pairs one insert failed and the other created its Alert.
C25_Witness ==
  \E t \in Threads :
    /\ pc[t] = "returned"
    /\ run[t].insert_failed
    /\ Cardinality(run[t].before) = 2
    /\ run[t].alerts_generated = 1
    /\ BagCardinality(alerts) = 1

\* C26: while the batch is processed, skipped counts the records the
\* normalizer rejected and the records whose upsert failed, and no other
\* record: a record merged into an existing row is not counted as skipped.
C26_SkippedIsRejectedOrFailed ==
  \A t \in Threads :
    pc[t] = "loop_fda" => run[t].skipped = run[t].rejected + run[t].upsert_failed

\* C27: a started run is never abandoned: a thread leaves the run and is
\* idle again only after the run reached its end and returned its summary.
C27_RunEndsOnlyByCompletion ==
  [][\A t \in Threads :
       (pc[t] # "idle" /\ pc'[t] = "idle") => pc[t] = "returned"]_vars

\* C28: start_recall_scheduler is idempotent. However often it is called,
\* at most one scheduler with its one recall_refresh job is running, and a
\* call made while the scheduler runs starts no scheduler and no run.
C28_StartIsIdempotent ==
  [][/\ schedulers' <= 1
     /\ (scheduler' = "running") = (schedulers' = 1)
     /\ (calls' = calls + 1 /\ scheduler = "running") =>
          /\ scheduler' = "running"
          /\ schedulers' = schedulers
          /\ pc' = pc /\ run' = run /\ runs' = runs]_vars
\* The second call has returned: one scheduler, and no run in progress.
C28_Witness ==
  /\ calls = 2
  /\ schedulers = 1
  /\ scheduler = "running"
  /\ Quiet

\* C29: at the end of every run inserted + skipped is the number of raw
\* records the run fetched: every fetched record is counted once.
C29_CountsAddUpToFetched ==
  \A t \in Threads :
    pc[t] \in {"returned", "raised"} =>
      run[t].inserted + run[t].skipped = run[t].fetched

\* C30: every Alert refers to a stored Recall with the Alert's product
\* identifier, and at the step that creates an Alert its watcher has a
\* watchlist entry with that identifier.
C30_AlertWellFormed ==
  [][/\ \A a \in BagToSet(alerts') :
          \E r \in recalls' : r.id = a.recall_id /\ r.upc = a.product_upc
     /\ \A a \in BagToSet(alerts') \ BagToSet(alerts) :
          [user_id |-> a.user_id, product_upc |-> a.product_upc] \in user_carts]_vars
\* C30, amended: every Alert refers to a stored Recall with the Alert's
\* product identifier, and the pair of an Alert that a fan-out creates was a
\* watched pair without Alert when that fan-out ran its query.
C30_AlertWellFormedAtQuery ==
  [][/\ \A a \in BagToSet(alerts') :
          \E r \in recalls' : r.id = a.recall_id /\ r.upc = a.product_upc
     /\ \A a \in BagToSet(alerts') \ BagToSet(alerts) :
          \E t \in Threads :
            /\ pc[t] = "insert"
            /\ [user_id |-> a.user_id, recall_id |-> a.recall_id,
                product_upc |-> a.product_upc] \in run[t].before]_vars
\* A fan-out has created an Alert and the watcher's cart is empty.
C30_Witness ==
  \E t \in Threads :
    /\ pc[t] = "insert"
    /\ run[t].created = 1
    /\ user_carts = {}
    /\ \E a \in BagToSet(alerts) : a.user_id \in Users /\ a.created_at = today
====
